---- MODULE Spec2Model ----
(***************************************************************************)
(* py_prisma: the status classification and count-derivation engine of     *)
(* src/src/py_prisma/loader.py (status_bucket, get_status,                 *)
(* parse_screening_criteria, compute_origin_stats, records_to_status), the *)
(* module the package exports, and the same engine as the single-file      *)
(* src/src/py_prisma/py_prisma.py has it (definitions named py_prisma_..). *)
(*                                                                         *)
(* Python values are modelled as tagged records: None, Str(s), List(l),    *)
(* Num(n), Dict(d).  A Python str is a TLA+ string, a dict is a function   *)
(* over its keys, a record (a dict of fields) is a TLA+ record in which a  *)
(* field holding None stands for a key the record does not have.           *)
(***************************************************************************)
EXTENDS Integers, Sequences, FiniteSets, TLC

VARIABLES
    records,            \* the record collection: a sequence of [rid, rec] (dict order)
    pos,                \* records_to_status: index of the next record of the pass
    buckets,            \* records_to_status: the eight bucket counters
    fulltext_reasons,   \* records_to_status: the full-text reason tally
    criteria_reasons_count, \* py_prisma.records_to_status: the tally of criteria
    single_reasons_count,   \* py_prisma.records_to_status: the tally of free-text reasons
    workers,            \* a parallel pass: each worker's records, counters and tally
    returned,           \* records_to_status: the PrismaStatus returned, None before
    fn,                 \* the function being run
    arg,                \* a pure function's argument
    ret,                \* a pure function's return value, None before the call
    entries,            \* the entries a screening-criteria argument was written from
    pc                  \* position in the run: "loop", "call" or "done"

vars ==
    <<records, pos, buckets, fulltext_reasons, criteria_reasons_count,
      single_reasons_count, workers, returned, fn, arg, ret, entries, pc>>

(***************************************************************************)
(* Python values                                                           *)
(***************************************************************************)
None == [tag |-> "None"]
Str(s) == [tag |-> "str", val |-> s]
List(l) == [tag |-> "list", val |-> l]
Num(n) == [tag |-> "int", val |-> n]
Dict(d) == [tag |-> "dict", val |-> d]

\* ReasonCounts(total=..., by_reason=...)
ReasonCounts(total, by_reason) ==
    [tag |-> "ReasonCounts", total |-> total, by_reason |-> by_reason]

\* The call raised the exception exc instead of returning.
Raise(exc) == [tag |-> "raise", val |-> exc]

\* Python truthiness of a value: None, "", [] and {} are false.
Truthy(v) ==
    CASE v.tag = "None" -> FALSE
      [] v.tag = "str" -> v.val # ""
      [] v.tag = "list" -> Len(v.val) > 0
      [] v.tag = "int" -> v.val # 0
      [] v.tag = "dict" -> DOMAIN v.val # {}
      [] v.tag = "ReasonCounts" -> TRUE

\* str(v) for the values a record field holds.
PyStr(v) ==
    CASE v.tag = "None" -> "None"
      [] v.tag = "str" -> v.val
      [] v.tag = "int" -> ToString(v.val)

EmptyDict == [k \in {} |-> 0]

\* dict.get(k, 0)
DictGet(d, k) == IF k \in DOMAIN d THEN d[k] ELSE 0

(***************************************************************************)
(* Python str methods                                                      *)
(***************************************************************************)
CharAt(s, i) == SubSeq(s, i, i)

\* x in s
Contains(s, x) ==
    \E i \in 1..(Len(s) - Len(x) + 1) : SubSeq(s, i, i + Len(x) - 1) = x

\* s.startswith(x)
StartsWith(s, x) == Len(x) <= Len(s) /\ SubSeq(s, 1, Len(x)) = x

\* s.endswith(x)
EndsWith(s, x) == Len(x) <= Len(s) /\ SubSeq(s, Len(s) - Len(x) + 1, Len(s)) = x

Whitespace == {" ", "\t", "\n"}

LowerChar(c) ==
    CASE c = "A" -> "a" [] c = "B" -> "b" [] c = "C" -> "c" [] c = "D" -> "d"
      [] c = "E" -> "e" [] c = "F" -> "f" [] c = "G" -> "g" [] c = "H" -> "h"
      [] c = "I" -> "i" [] c = "J" -> "j" [] c = "K" -> "k" [] c = "L" -> "l"
      [] c = "M" -> "m" [] c = "N" -> "n" [] c = "O" -> "o" [] c = "P" -> "p"
      [] c = "Q" -> "q" [] c = "R" -> "r" [] c = "S" -> "s" [] c = "T" -> "t"
      [] c = "U" -> "u" [] c = "V" -> "v" [] c = "W" -> "w" [] c = "X" -> "x"
      [] c = "Y" -> "y" [] c = "Z" -> "z" [] OTHER -> c

\* s.lower()
RECURSIVE Lower(_)
Lower(s) ==
    IF Len(s) = 0 THEN ""
    ELSE LowerChar(CharAt(s, 1)) \o Lower(SubSeq(s, 2, Len(s)))

\* s.lstrip(chars) and s.rstrip(chars), chars a set of characters
RECURSIVE LStripChars(_, _)
LStripChars(s, chars) ==
    IF Len(s) > 0 /\ CharAt(s, 1) \in chars
    THEN LStripChars(SubSeq(s, 2, Len(s)), chars)
    ELSE s

RECURSIVE RStripChars(_, _)
RStripChars(s, chars) ==
    IF Len(s) > 0 /\ CharAt(s, Len(s)) \in chars
    THEN RStripChars(SubSeq(s, 1, Len(s) - 1), chars)
    ELSE s

\* s.strip(chars)
StripChars(s, chars) == RStripChars(LStripChars(s, chars), chars)

\* s.strip()
Strip(s) == StripChars(s, Whitespace)

\* s.replace(a, b) for single characters a and b
RECURSIVE Replace(_, _, _)
Replace(s, a, b) ==
    IF Len(s) = 0 THEN ""
    ELSE (IF CharAt(s, 1) = a THEN b ELSE CharAt(s, 1))
         \o Replace(SubSeq(s, 2, Len(s)), a, b)

\* The index of the first occurrence of the character c in s, 0 if there is none.
Find(s, c) ==
    IF \E i \in 1..Len(s) : CharAt(s, i) = c
    THEN CHOOSE i \in 1..Len(s) :
            CharAt(s, i) = c /\ \A j \in 1..(i - 1) : CharAt(s, j) # c
    ELSE 0

\* s.split(c) for a single character c: always at least one part
RECURSIVE Split(_, _)
Split(s, c) ==
    LET i == Find(s, c) IN
    IF i = 0 THEN <<s>>
    ELSE <<SubSeq(s, 1, i - 1)>> \o Split(SubSeq(s, i + 1, Len(s)), c)

\* s.split(c, 1) when c occurs in s: the text before and after the first c
SplitOnce(s, c) ==
    LET i == Find(s, c) IN <<SubSeq(s, 1, i - 1), SubSeq(s, i + 1, Len(s))>>

(***************************************************************************)
(* CoLRev loading: get_status                                              *)
(***************************************************************************)
STATUS_KEYS == <<"colrev_status", "status", "screening_status">>

\* rec.get(key): the field's value, None for a key the record does not have
Get(rec, key) == IF key \in DOMAIN rec THEN rec[key] ELSE None

RECURSIVE get_status_from(_, _)
get_status_from(rec, i) ==
    IF i > Len(STATUS_KEYS) THEN ""
    ELSE LET val == Get(rec, STATUS_KEYS[i]) IN
         IF Truthy(val) THEN Strip(PyStr(val))
         ELSE get_status_from(rec, i + 1)

\* get_status with the candidate fields tried from the last to the first
RECURSIVE get_status_from_last(_, _)
get_status_from_last(rec, i) ==
    IF i < 1 THEN ""
    ELSE LET val == Get(rec, STATUS_KEYS[i]) IN
         IF Truthy(val) THEN Strip(PyStr(val))
         ELSE get_status_from_last(rec, i - 1)

get_status_last_first(rec) == get_status_from_last(rec, Len(STATUS_KEYS))

get_status(rec) == get_status_from(rec, 1)

(***************************************************************************)
(* Status buckets                                                          *)
(***************************************************************************)
PDF_NOT_RETRIEVED_STATUSES == {"pdf_needs_manual_retrieval", "pdf_not_available"}

PDF_RETRIEVED_STATUSES ==
    {"pdf_imported", "pdf_needs_manual_preparation", "pdf_prepared"}

\* any(x in s for x in markers)
ContainsAny(s, markers) == \E x \in markers : Contains(s, x)

\* status_bucket with the screening rule tried before the exclusion rule
status_bucket_screened_first(status) ==
    LET s == Lower(status) IN
    IF Contains(s, "rev_prescreen_excluded") THEN "prescreen_excluded"
    ELSE IF ContainsAny(s, {"prescreen", "screened"}) THEN "screened"
    ELSE IF ContainsAny(s, {"excluded", "reject"}) THEN "fulltext_excluded"
    ELSE IF ContainsAny(s, PDF_NOT_RETRIEVED_STATUSES) THEN "pdf_not_retrieved"
    ELSE IF ContainsAny(s, PDF_RETRIEVED_STATUSES) THEN "pdf_retrieved"
    ELSE IF ContainsAny(s, {"included", "accept", "synth"}) THEN "included"
    ELSE IF ContainsAny(s, {"duplicate", "dedupe"}) THEN "duplicate"
    ELSE "other"

status_bucket(status) ==
    LET s == Lower(status) IN
    IF Contains(s, "rev_prescreen_excluded") THEN "prescreen_excluded"
    ELSE IF ContainsAny(s, {"excluded", "reject"}) THEN "fulltext_excluded"
    ELSE IF ContainsAny(s, {"prescreen", "screened"}) THEN "screened"
    ELSE IF ContainsAny(s, PDF_NOT_RETRIEVED_STATUSES) THEN "pdf_not_retrieved"
    ELSE IF ContainsAny(s, PDF_RETRIEVED_STATUSES) THEN "pdf_retrieved"
    ELSE IF ContainsAny(s, {"included", "accept", "synth"}) THEN "included"
    ELSE IF ContainsAny(s, {"duplicate", "dedupe"}) THEN "duplicate"
    ELSE "other"

(***************************************************************************)
(* Origin statistics                                                       *)
(***************************************************************************)
\* [p.strip() for p in parts if p.strip()]
RECURSIVE StripNonEmpty(_)
StripNonEmpty(parts) ==
    IF Len(parts) = 0 THEN <<>>
    ELSE LET p == Strip(Head(parts)) IN
         (IF p # "" THEN <<p>> ELSE <<>>) \o StripNonEmpty(Tail(parts))

_split_origin(value) ==
    IF ~Truthy(value) THEN <<>>
    ELSE IF value.tag = "str" THEN StripNonEmpty(Split(value.val, ";"))
    ELSE IF value.tag = "list" THEN StripNonEmpty(value.val)
    ELSE <<>>

(***************************************************************************)
(* Screening criteria parsing                                              *)
(***************************************************************************)
out_vals == {"out", "exclude", "excluded", "0", "false", "no"}
in_vals == {"in", "include", "included", "1", "true", "yes"}

\* result[k] = v
DictSet(d, k, v) == [x \in DOMAIN d \cup {k} |-> IF x = k THEN v ELSE d[x]]

\* parse_part with a value of neither vocabulary taken as an inclusion
parse_part_unknown_as_in(result, part) ==
    IF Contains(part, "=") \/ Contains(part, ":")
    THEN LET kv == IF Contains(part, "=") THEN SplitOnce(part, "=")
                   ELSE SplitOnce(part, ":")
             k == Strip(kv[1])
             v == Lower(Strip(kv[2]))
         IN  IF v \in out_vals THEN DictSet(result, k, 1)
             ELSE DictSet(result, k, 0)
    ELSE result

\* parse_part with an entry that is not well formed failing the whole parse
parse_part_malformed_resets(result, part) ==
    IF Contains(part, "=") \/ Contains(part, ":")
    THEN LET kv == IF Contains(part, "=") THEN SplitOnce(part, "=")
                   ELSE SplitOnce(part, ":")
             k == Strip(kv[1])
             v == Lower(Strip(kv[2]))
         IN  IF v \in out_vals THEN DictSet(result, k, 1)
             ELSE IF v \in in_vals THEN DictSet(result, k, 0)
             ELSE EmptyDict
    ELSE EmptyDict

\* One iteration of the loop of parse_screening_criteria: result after `part`.
parse_part(result, part) ==
    IF Contains(part, "=") \/ Contains(part, ":")
    THEN LET kv == IF Contains(part, "=") THEN SplitOnce(part, "=")
                   ELSE SplitOnce(part, ":")
             k == Strip(kv[1])
             v == Lower(Strip(kv[2]))
         IN  IF v \in out_vals THEN DictSet(result, k, 1)
             ELSE IF v \in in_vals THEN DictSet(result, k, 0)
             ELSE result
    ELSE result

\* The loop of parse_screening_criteria over parts[i..], result so far.
RECURSIVE parse_parts(_, _, _)
parse_parts(parts, i, result) ==
    IF i > Len(parts) THEN result
    ELSE parse_parts(parts, i + 1, parse_part(result, parts[i]))

parse_screening_criteria(value) ==
    IF ~Truthy(value) THEN EmptyDict
    ELSE LET s == StripChars(Strip(PyStr(value)), {"{", "}"}) IN
         parse_parts(Split(Replace(s, ";", ","), ","), 1, EmptyDict)

(***************************************************************************)
(* Inputs: the records, collections and arguments the runs are made on     *)
(***************************************************************************)
MaxRecords == 4
MaxReasonRecords == 3
MaxOriginRecords == 3
MaxOrderRecords == 3
MaxStatusParts == 2
MaxEntries == 2
MaxCount == 3
MaxOtherRecords == 3
MaxParallelRecords == 3
NumWorkers == 2

\* The values a status field holds: missing, empty, blank, text, numbers.
StatusValues ==
    {None, Str(""), Str(" "), Str(" rev_included "), Str("pdf_prepared"), Num(0), Num(5)}

\* Records with the three candidate status fields.
StatusRecords ==
    [colrev_status : StatusValues, status : StatusValues,
     screening_status : StatusValues]

\* A record with the fields the engine reads; None: the record has no such key.
Rec(status, criteria, reason, origin) ==
    [colrev_status |-> status, screening_criteria |-> criteria,
     exclusion_reason |-> reason, colrev_origin |-> origin]

\* Records of every bucket, with CoLRev's own statuses and others.
FlowRecords ==
    {Rec(Str(s), None, None, None) :
        s \in {"rev_prescreen_excluded", "rev_prescreen_included", "pdf_not_available",
               "pdf_prepared", "rev_included", "md_duplicate", "md_imported"}}
    \cup {Rec(Str("rev_excluded"), Str("{a=out;b=out}"), None, Str("s1;s2")),
          Rec(Str("rev_excluded"), None, Str("wrong design"), None),
          [status |-> Str(" Rev_Synthesized "), colrev_origin |-> Str("s1")]}

\* Records with the two encodings of an exclusion reason, excluded at the
\* full-text stage or not.
ReasonRecords ==
    {Rec(Str("rev_excluded"), Str("{a=out}"), None, None),
     Rec(Str("rev_excluded"), Str("{a=in;b=out}"), Str("x"), None),
     Rec(Str("rev_excluded"), Str("{a=out;b=out}"), None, None),
     Rec(Str("rev_excluded"), Str("{a=in}"), Str("x"), None),
     Rec(Str("rev_excluded"), Str("b=maybe"), Str("x"), None),
     Rec(Str("rev_excluded"), None, Str(" b "), None),
     Rec(Str("rev_excluded"), Str(""), Str(" "), None),
     Rec(Str("rev_excluded"), None, None, None),
     Rec(Str("rev_included"), Str("{a=out}"), Str("x"), None),
     Rec(Str("rev_prescreen_excluded"), None, Str("x"), None)}

\* Records with and without origin tracking.
OriginRecords ==
    {Rec(Str("rev_included"), None, None, o) :
        o \in {None, Str(""), Str("c"), Str("a;b"), Str(" a ; ;b;"), Str(" ;"),
               List(<<"a", " ", "b;c">>), List(<<>>)}}

\* Records whose tallies and origin statistics meet on the same keys.
OrderRecords ==
    {Rec(Str("rev_excluded"), Str("{a=out}"), None, Str("s1;s2")),
     Rec(Str("rev_excluded"), Str("{a=in;b=out}"), Str("x"), None),
     Rec(Str("rev_excluded"), None, Str("a"), None),
     Rec(Str("rev_included"), None, None, Str("s3")),
     Rec(Str("rev_prescreen_excluded"), None, None, None),
     Rec(Str("pdf_prepared"), None, None, Str(" "))}

\* Records excluded with reasons, some written as only one of the two
\* modules reads them: a quoted value, a one-letter value, an origin entry
\* that carries the exclusion prefix.
TallyRecords ==
    ReasonRecords
    \cup {Rec(Str("rev_excluded"), Str("{a=\"out\",}"), Str("x"), None),
          Rec(Str("rev_excluded"), Str("a=n;b:Y"), Str("x"), Str("md_s1;s2")),
          Rec(Str("rev_synthesized"), None, Str("x"), Str(" "))}

\* Records whose status matches no rule of the classifier, with and without
\* reasons and origins, and records of the buckets the summary is derived from.
OtherRecords ==
    {Rec(Str("md_imported"), Str("{a=out}"), Str("x"), Str("s1;s2")),
     Rec(Str("unknown_status"), None, Str("x"), None),
     Rec(None, None, None, None),
     Rec(Str("rev_excluded"), Str("{a=out}"), None, None),
     Rec(Str("rev_prescreen_excluded"), None, None, None),
     Rec(Str("pdf_not_available"), None, None, None),
     Rec(Str("pdf_prepared"), None, None, Str("s3")),
     Rec(Str("rev_included"), None, None, None)}

AllRecords ==
    FlowRecords \cup ReasonRecords \cup OriginRecords \cup OrderRecords
    \cup TallyRecords \cup OtherRecords

\* The collection of the records f[1], f[2], ... in this order; the record at
\* place i has the id <prefix>i, its prefix p[i].
Collection(f, p) == [i \in DOMAIN f |-> [rid |-> p[i] \o ToString(i), rec |-> f[i]]]

\* Status strings: at most MaxStatusParts of these pieces in a row.
StatusPieces ==
    {"rev_", "rev_prescreen_", "prescreen", "_", "excluded", "reject", "screened", "screen",
     "included", "accept", "synth", "duplicate", "dedupe", "md_",
     "pdf_not_available", "pdf_needs_manual_retrieval", "pdf_imported",
     "pdf_needs_manual_preparation", "pdf_prepared", "pdf_", "EXCLUDED",
     "PreScreen", " "}

RECURSIVE Statuses(_)
Statuses(n) ==
    IF n = 0 THEN {""}
    ELSE LET shorter == Statuses(n - 1) IN
         shorter \cup {s \o p : s \in shorter, p \in StatusPieces}

\* Screening-criteria fields: entries [key, sep, val] written one after the
\* other; sep "" is an entry that lacks its separator.
EntryKeys == {"non-empirical", "bias"}
EntrySeps == {"=", ":", ""}
Entries(vals) == [key : EntryKeys, sep : EntrySeps, val : vals]
EntryStyles == [braces : BOOLEAN, join : {<<";", "">>, <<",", " ">>}]

\* One entry alone with every value of the two vocabularies, or up to
\* MaxEntries entries with a few values.
EntryLists ==
    {<<>>}
    \cup {<<e>> : e \in Entries(out_vals \cup in_vals \cup {"maybe", "n", "y", ""})}
    \cup UNION {[1..k -> Entries({"out", "in", "maybe"})] : k \in 2..MaxEntries}

RECURSIVE WriteEntries(_, _, _)
WriteEntries(es, i, style) ==
    IF i > Len(es) THEN ""
    ELSE LET pad == style.join[2] IN
         pad \o es[i].key \o pad \o es[i].sep \o pad \o es[i].val \o pad
         \o (IF i < Len(es) THEN style.join[1] ELSE "")
         \o WriteEntries(es, i + 1, style)

WriteCriteria(es, style) ==
    IF style.braces THEN "{" \o WriteEntries(es, 1, style) \o "}"
    ELSE WriteEntries(es, 1, style)

\* Reasons-like values: counts, values that are or are not integer-like,
\* direct and structured mappings, ReasonCounts.
Counts == {Num(n) : n \in 0..MaxCount}

CountValues == Counts \cup {Str("3"), Str("many"), None}

\* The mappings from some of the keys to the values.
Mappings(keys, values) == UNION {[ks -> values] : ks \in SUBSET keys}

Breakdowns ==
    Mappings({"a", "b"}, Counts)
    \cup {[k \in {"a"} |-> Str("3")], [k \in {"a"} |-> Str("many")]}

DirectMappings ==
    {Dict(d) : d \in Mappings({"a", "b"}, CountValues)}
    \cup {Dict([k \in {"reasons"} |-> Dict([a \in {"a"} |-> Num(1)])])}

Totals == Counts \cup {None, Str(" 3 "), Str("many")}

\* A key the mapping does not have.
Absent == [tag |-> "absent"]

\* Mappings with some of the keys total, by_reason, reasons and breakdown.
StructuredMappings ==
    {Dict([k \in {x \in DOMAIN f : f[x] # Absent} |-> f[k]]) :
        f \in [total : Totals \cup {Absent},
               by_reason : {Absent, None} \cup {Dict(b) : b \in Breakdowns},
               reasons : {Absent, Dict(EmptyDict), Dict([a \in {"a"} |-> Num(1)])},
               breakdown : {Absent, Dict([a \in {"b"} |-> Num(2)])}]}

ReasonCountsValues ==
    {ReasonCounts(t, b) : t \in Totals, b \in {None} \cup {Dict(x) : x \in Breakdowns}}

ReasonsLike ==
    {None} \cup Counts \cup {Str(""), Str("3"), Str(" -4 "), Str("many")}
    \cup DirectMappings \cup StructuredMappings \cup ReasonCountsValues

\* The ways the value of an entry is written: bare, in upper case, in double
\* or single quotes, in braces.
UpperChar(c) ==
    IF \E u \in {"A", "B", "C", "D", "E", "F", "G", "H", "I", "J", "K", "L", "M",
                 "N", "O", "P", "Q", "R", "S", "T", "U", "V", "W", "X", "Y", "Z"} :
          LowerChar(u) = c
    THEN CHOOSE u \in {"A", "B", "C", "D", "E", "F", "G", "H", "I", "J", "K", "L", "M",
                       "N", "O", "P", "Q", "R", "S", "T", "U", "V", "W", "X", "Y", "Z"} :
            LowerChar(u) = c
    ELSE c

RECURSIVE Upper(_)
Upper(s) ==
    IF Len(s) = 0 THEN ""
    ELSE UpperChar(CharAt(s, 1)) \o Upper(SubSeq(s, 2, Len(s)))

Wrappings == {"bare", "upper", "double-quoted", "single-quoted", "braced", "quoted upper"}

Wrapped(token, w) ==
    CASE w = "bare" -> token
      [] w = "upper" -> Upper(token)
      [] w = "double-quoted" -> "\"" \o token \o "\""
      [] w = "single-quoted" -> "'" \o token \o "'"
      [] w = "braced" -> "{" \o token \o "}"
      [] w = "quoted upper" -> "\"" \o Upper(token) \o "\""

\* One entry whose value is a token of the two vocabularies, written one of
\* these ways; token keeps the bare lower-case token.
WrappedEntries ==
    {<<[key |-> k, sep |-> sp, val |-> Wrapped(t, w), token |-> t]>> :
        k \in EntryKeys, sp \in {"=", ":"}, t \in out_vals \cup in_vals, w \in Wrappings}

(***************************************************************************)
(* What the pure functions return on each record, computed once            *)
(***************************************************************************)
\* status_bucket(get_status(rec))
BucketOf == [rec \in AllRecords |-> status_bucket(get_status(rec))]

\* parse_screening_criteria(rec.get(screening_criteria_key))
ParsedOf ==
    [rec \in AllRecords |-> parse_screening_criteria(Get(rec, "screening_criteria"))]

\* _split_origin(rec.get(origin_field))
OriginPartsOf == [rec \in AllRecords |-> _split_origin(Get(rec, "colrev_origin"))]

(***************************************************************************)
(* compute_origin_stats                                                    *)
(***************************************************************************)
Max(a, b) == IF a >= b THEN a ELSE b

\* origin_step with any_origin set by any non-empty origin value, parts or not
origin_step_any_value(l, r) ==
    IF StartsWith(r.rid, "md_") THEN l
    ELSE LET parts == OriginPartsOf[r.rec] IN
         [total_origins |-> l.total_origins + Len(parts),
          kept |-> l.kept + 1,
          any_origin |-> l.any_origin \/ Truthy(Get(r.rec, "colrev_origin"))]

\* origin_step with any_origin assigned from the record at hand
origin_step_last_decides(l, r) ==
    IF StartsWith(r.rid, "md_") THEN l
    ELSE LET parts == OriginPartsOf[r.rec] IN
         [total_origins |-> l.total_origins + Len(parts),
          kept |-> l.kept + 1, any_origin |-> Len(parts) > 0]

\* The body of the loop of compute_origin_stats on the record r = [rid, rec];
\* l holds the locals total_origins, kept and any_origin.
origin_step(l, r) ==
    IF StartsWith(r.rid, "md_") THEN l
    ELSE LET parts == OriginPartsOf[r.rec] IN
         IF Len(parts) > 0
         THEN [total_origins |-> l.total_origins + Len(parts),
               kept |-> l.kept + 1, any_origin |-> TRUE]
         ELSE [l EXCEPT !.kept = @ + 1]

RECURSIVE origin_loop(_, _, _)
origin_loop(recs, i, l) ==
    IF i > Len(recs) THEN l
    ELSE origin_loop(recs, i + 1, origin_step(l, recs[i]))

\* compute_origin_stats without the floor at zero
compute_origin_stats_unclamped(recs) ==
    LET l == origin_loop(recs, 1,
                         [total_origins |-> 0, kept |-> 0, any_origin |-> FALSE])
    IN  IF ~l.any_origin THEN <<None, None>>
        ELSE <<Num(l.total_origins), Num(l.total_origins - l.kept)>>

\* compute_origin_stats(records) with its default keyword arguments: the
\* pair (total_origins, duplicates removed), each None or a number
compute_origin_stats(recs) ==
    LET l == origin_loop(recs, 1,
                         [total_origins |-> 0, kept |-> 0, any_origin |-> FALSE])
    IN  IF ~l.any_origin THEN <<None, None>>
        ELSE <<Num(l.total_origins), Num(Max(0, l.total_origins - l.kept))>>

(***************************************************************************)
(* Main mapping: records_to_status                                         *)
(***************************************************************************)
BUCKETS ==
    {"screened", "prescreen_excluded", "fulltext_excluded", "pdf_not_retrieved",
     "pdf_retrieved", "included", "duplicate", "other"}

\* buckets = {...: 0} (lines 233-242)
ZeroBuckets == [b \in BUCKETS |-> 0]

\* tally_reasons counting every criterion parsed, whatever its flag
tally_reasons_every_criterion(reasons, rec) ==
    LET parsed == ParsedOf[rec] IN
    IF DOMAIN parsed # {}
    THEN [k \in DOMAIN reasons \cup DOMAIN parsed |->
             DictGet(reasons, k) + IF k \in DOMAIN parsed THEN 1 ELSE 0]
    ELSE LET reason == Get(rec, "exclusion_reason")
             r == Strip(IF reason = None THEN "" ELSE PyStr(reason))
         IN  IF r # "" THEN DictSet(reasons, r, DictGet(reasons, r) + 1)
             ELSE reasons

\* tally_reasons without the fallback to the free-text reason
tally_reasons_no_fallback(reasons, rec) ==
    LET parsed == ParsedOf[rec] IN
    [k \in DOMAIN reasons \cup DOMAIN parsed |->
        DictGet(reasons, k) + DictGet(parsed, k)]

\* tally_reasons with the free-text reason tallied beside the criteria
tally_reasons_both(reasons, rec) ==
    LET parsed == ParsedOf[rec]
        merged == [k \in DOMAIN reasons \cup DOMAIN parsed |->
                      DictGet(reasons, k) + DictGet(parsed, k)]
        reason == Get(rec, "exclusion_reason")
        r == Strip(IF reason = None THEN "" ELSE PyStr(reason))
    IN  IF r # "" THEN DictSet(merged, r, DictGet(merged, r) + 1)
        ELSE merged

\* tally_reasons assigning a criterion's flag or a reason's 1 instead of
\* adding it
tally_reasons_assigns(reasons, rec) ==
    LET parsed == ParsedOf[rec] IN
    IF DOMAIN parsed # {}
    THEN [k \in DOMAIN reasons \cup DOMAIN parsed |->
             IF k \in DOMAIN parsed THEN parsed[k] ELSE reasons[k]]
    ELSE LET reason == Get(rec, "exclusion_reason")
             r == Strip(IF reason = None THEN "" ELSE PyStr(reason))
         IN  IF r # "" THEN DictSet(reasons, r, 1)
             ELSE reasons

\* The reason tally after a fulltext_excluded record (lines 251-258).
tally_reasons(reasons, rec) ==
    LET parsed == ParsedOf[rec] IN
    IF DOMAIN parsed # {}
    THEN [k \in DOMAIN reasons \cup DOMAIN parsed |->
             DictGet(reasons, k) + DictGet(parsed, k)]
    ELSE LET reason == Get(rec, "exclusion_reason")
             \* str(rec.get(exclusion_reason_key, "")).strip()
             r == Strip(IF reason = None THEN "" ELSE PyStr(reason))
         IN  IF r # "" THEN DictSet(reasons, r, DictGet(reasons, r) + 1)
             ELSE reasons

\* loop_body that passes over a record classified as a duplicate without
\* counting it
loop_body_skips_duplicates(b, reasons, rec) ==
    LET bucket == BucketOf[rec] IN
    [buckets |-> IF bucket = "duplicate" THEN b ELSE [b EXCEPT ![bucket] = @ + 1],
     fulltext_reasons |-> IF bucket = "fulltext_excluded"
                          THEN tally_reasons(reasons, rec) ELSE reasons]

\* The locals after the body of the loop of records_to_status has run on rec.
loop_body(b, reasons, rec) ==
    LET bucket == BucketOf[rec] IN
    [buckets |-> [b EXCEPT ![bucket] = @ + 1],
     fulltext_reasons |-> IF bucket = "fulltext_excluded"
                          THEN tally_reasons(reasons, rec) ELSE reasons]

\* prisma_status with reports_sought taken from the retrieved and included
\* buckets alone
prisma_status_sought_from_assessed(b, reasons, recs) ==
    LET screened_total == b["screened"] + b["prescreen_excluded"]
                          + b["pdf_not_retrieved"] + b["pdf_retrieved"]
                          + b["included"]
        assessed == b["pdf_retrieved"] + b["included"]
        origin == compute_origin_stats(recs)
    IN  [databases |-> origin[1],
         registers |-> None,
         duplicates |-> origin[2],
         automation |-> None,
         other_removed |-> None,
         screened |-> screened_total,
         records_excluded |-> b["prescreen_excluded"],
         reports_sought |-> assessed,
         not_retrieved |-> b["pdf_not_retrieved"],
         assessed |-> assessed,
         reports_excluded |-> IF DOMAIN reasons # {} THEN Dict(reasons) ELSE None,
         included |-> b["included"],
         new_reports |-> b["included"]]

\* prisma_status with assessed missing the included records
prisma_status_assessed_retrieved_only(b, reasons, recs) ==
    LET screened_total == b["screened"] + b["prescreen_excluded"]
                          + b["pdf_not_retrieved"] + b["pdf_retrieved"]
                          + b["included"]
        records_sought == screened_total - b["prescreen_excluded"]
        origin == compute_origin_stats(recs)
    IN  [databases |-> origin[1],
         registers |-> None,
         duplicates |-> origin[2],
         automation |-> None,
         other_removed |-> None,
         screened |-> screened_total,
         records_excluded |-> b["prescreen_excluded"],
         reports_sought |-> records_sought,
         not_retrieved |-> b["pdf_not_retrieved"],
         assessed |-> b["pdf_retrieved"],
         reports_excluded |-> IF DOMAIN reasons # {} THEN Dict(reasons) ELSE None,
         included |-> b["included"],
         new_reports |-> b["included"]]

\* prisma_status with screened_total missing the prescreen-excluded records
prisma_status_screened_without_prescreen(b, reasons, recs) ==
    LET screened_total == b["screened"] + b["pdf_not_retrieved"]
                          + b["pdf_retrieved"] + b["included"]
        records_sought == screened_total - b["prescreen_excluded"]
        assessed == b["pdf_retrieved"] + b["included"]
        origin == compute_origin_stats(recs)
    IN  [databases |-> origin[1],
         registers |-> None,
         duplicates |-> origin[2],
         automation |-> None,
         other_removed |-> None,
         screened |-> screened_total,
         records_excluded |-> b["prescreen_excluded"],
         reports_sought |-> records_sought,
         not_retrieved |-> b["pdf_not_retrieved"],
         assessed |-> assessed,
         reports_excluded |-> IF DOMAIN reasons # {} THEN Dict(reasons) ELSE None,
         included |-> b["included"],
         new_reports |-> b["included"]]

\* prisma_status with the records of the bucket other counted as screened
prisma_status_screened_counts_other(b, reasons, recs) ==
    LET screened_total == b["screened"] + b["prescreen_excluded"]
                          + b["pdf_not_retrieved"] + b["pdf_retrieved"]
                          + b["included"] + b["other"]
        records_sought == screened_total - b["prescreen_excluded"]
        assessed == b["pdf_retrieved"] + b["included"]
        origin == compute_origin_stats(recs)
    IN  [databases |-> origin[1],
         registers |-> None,
         duplicates |-> origin[2],
         automation |-> None,
         other_removed |-> None,
         screened |-> screened_total,
         records_excluded |-> b["prescreen_excluded"],
         reports_sought |-> records_sought,
         not_retrieved |-> b["pdf_not_retrieved"],
         assessed |-> assessed,
         reports_excluded |-> IF DOMAIN reasons # {} THEN Dict(reasons) ELSE None,
         included |-> b["included"],
         new_reports |-> b["included"]]

\* prisma_status with the reports excluded at the full-text stage counted
\* among the reports assessed
prisma_status_assessed_counts_excluded(b, reasons, recs) ==
    LET screened_total == b["screened"] + b["prescreen_excluded"]
                          + b["pdf_not_retrieved"] + b["pdf_retrieved"]
                          + b["included"]
        records_sought == screened_total - b["prescreen_excluded"]
        assessed == b["pdf_retrieved"] + b["included"] + b["fulltext_excluded"]
        origin == compute_origin_stats(recs)
    IN  [databases |-> origin[1],
         registers |-> None,
         duplicates |-> origin[2],
         automation |-> None,
         other_removed |-> None,
         screened |-> screened_total,
         records_excluded |-> b["prescreen_excluded"],
         reports_sought |-> records_sought,
         not_retrieved |-> b["pdf_not_retrieved"],
         assessed |-> assessed,
         reports_excluded |-> IF DOMAIN reasons # {} THEN Dict(reasons) ELSE None,
         included |-> b["included"],
         new_reports |-> b["included"]]

\* The PrismaStatus records_to_status builds after the loop (lines 260-284).
prisma_status(b, reasons, recs) ==
    LET screened_total == b["screened"] + b["prescreen_excluded"]
                          + b["pdf_not_retrieved"] + b["pdf_retrieved"]
                          + b["included"]
        records_sought == screened_total - b["prescreen_excluded"]
        assessed == b["pdf_retrieved"] + b["included"]
        origin == compute_origin_stats(recs)
    IN  [databases |-> origin[1],
         registers |-> None,
         duplicates |-> origin[2],
         automation |-> None,
         other_removed |-> None,
         screened |-> screened_total,
         records_excluded |-> b["prescreen_excluded"],
         reports_sought |-> records_sought,
         not_retrieved |-> b["pdf_not_retrieved"],
         assessed |-> assessed,
         reports_excluded |-> IF DOMAIN reasons # {} THEN Dict(reasons) ELSE None,
         included |-> b["included"],
         new_reports |-> b["included"]]

\* The loop of records_to_status from record i on.
RECURSIVE run_loop(_, _, _, _)
run_loop(recs, i, b, reasons) ==
    IF i > Len(recs) THEN [buckets |-> b, fulltext_reasons |-> reasons]
    ELSE LET l == loop_body(b, reasons, recs[i].rec) IN
         run_loop(recs, i + 1, l.buckets, l.fulltext_reasons)

\* records_to_status(records) as one call
records_to_status(recs) ==
    LET l == run_loop(recs, 1, ZeroBuckets, EmptyDict) IN
    prisma_status(l.buckets, l.fulltext_reasons, recs)

(***************************************************************************)
(* py_prisma.py: the single-file module's own classifier, parser, origin   *)
(* statistics and main mapping (its get_status is loader.py's)             *)
(***************************************************************************)
py_prisma_status_bucket(status) ==
    LET s == Lower(status) IN
    IF ContainsAny(s, {"md_imported", "imported", "retrieved_md", "md_retrieved"})
    THEN "identified"
    ELSE IF ContainsAny(s, {"dedupe", "duplicate", "md_duplicate"}) THEN "duplicate"
    ELSE IF ContainsAny(s, {"prescreen", "title_abstract", "screen", "screened"})
    THEN "screened"
    ELSE IF ContainsAny(s, {"excluded", "reject"}) THEN "excluded"
    ELSE IF ContainsAny(s, {"pdf", "fulltext", "full_text", "retrieval"})
    THEN "fulltext"
    ELSE IF ContainsAny(s, {"included", "accept", "synth"}) THEN "included"
    ELSE "other"

py_prisma_split_origin(value) ==
    IF ~Truthy(value) THEN <<>>
    ELSE IF value.tag = "str" THEN StripNonEmpty(Split(value.val, ";"))
    ELSE IF value.tag = "list" THEN StripNonEmpty(value.val)
    ELSE <<>>

\* [p for p in parts if not p.startswith(prefix)]
RECURSIVE WithoutPrefixed(_, _)
WithoutPrefixed(parts, prefix) ==
    IF Len(parts) = 0 THEN <<>>
    ELSE (IF StartsWith(Head(parts), prefix) THEN <<>> ELSE <<Head(parts)>>)
         \o WithoutPrefixed(Tail(parts), prefix)

\* _split_origin(origin_val) without the entries that carry the prefix
PyPrismaOriginPartsOf ==
    [rec \in AllRecords |->
        WithoutPrefixed(py_prisma_split_origin(Get(rec, "colrev_origin")), "md_")]

\* The body of the loop of py_prisma.compute_origin_stats on r = [rid, rec].
py_prisma_origin_step(l, r) ==
    IF StartsWith(r.rid, "md_") THEN l
    ELSE IF ~Truthy(Get(r.rec, "colrev_origin")) THEN [l EXCEPT !.kept_records = @ + 1]
    ELSE [total_origin_entries |->
              l.total_origin_entries + Len(PyPrismaOriginPartsOf[r.rec]),
          kept_records |-> l.kept_records + 1,
          any_origin |-> TRUE]

RECURSIVE py_prisma_origin_loop(_, _, _)
py_prisma_origin_loop(recs, i, l) ==
    IF i > Len(recs) THEN l
    ELSE py_prisma_origin_loop(recs, i + 1, py_prisma_origin_step(l, recs[i]))

py_prisma_compute_origin_stats(recs) ==
    LET l == py_prisma_origin_loop(recs, 1,
                 [total_origin_entries |-> 0, kept_records |-> 0,
                  any_origin |-> FALSE])
    IN  IF ~l.any_origin THEN <<None, None>>
        ELSE <<Num(l.total_origin_entries),
               Num(Max(0, l.total_origin_entries - l.kept_records))>>

py_prisma_out_vals == {"out", "exclude", "excluded", "0", "false", "no", "n"}
py_prisma_in_vals == {"in", "include", "included", "1", "true", "yes", "y"}

\* raw_parts: the chunks between ';', each split at ',', empty pieces dropped
RECURSIVE py_prisma_raw_parts(_)
py_prisma_raw_parts(chunks) ==
    IF Len(chunks) = 0 THEN <<>>
    ELSE LET chunk == Strip(Head(chunks)) IN
         (IF chunk = "" THEN <<>> ELSE StripNonEmpty(Split(chunk, ",")))
         \o py_prisma_raw_parts(Tail(chunks))

\* One iteration of `for part in raw_parts`: out after `part`.
py_prisma_parse_part(out, part) ==
    IF Contains(part, "=") \/ Contains(part, ":")
    THEN LET kv == IF Contains(part, "=") THEN SplitOnce(part, "=")
                   ELSE SplitOnce(part, ":")
             key == Strip(kv[1])
             val == Strip(StripChars(StripChars(StripChars(
                        Lower(Strip(kv[2])), {"{", "}"}), {"\""}), {"'"}))
         IN  IF key = "" \/ val = "" THEN out
             ELSE IF val \in py_prisma_out_vals THEN DictSet(out, key, 1)
             ELSE IF val \in py_prisma_in_vals THEN DictSet(out, key, 0)
             ELSE out
    ELSE out

RECURSIVE py_prisma_parse_parts(_, _, _)
py_prisma_parse_parts(parts, i, out) ==
    IF i > Len(parts) THEN out
    ELSE py_prisma_parse_parts(parts, i + 1, py_prisma_parse_part(out, parts[i]))

py_prisma_parse_screening_criteria(value) ==
    IF ~Truthy(value) THEN EmptyDict
    ELSE LET stripped == Strip(PyStr(value))
             inner == IF StartsWith(stripped, "{") /\ EndsWith(stripped, "}")
                      THEN Strip(SubSeq(stripped, 2, Len(stripped) - 1))
                      ELSE stripped
             s == Strip(RStripChars(inner, {","}))
         IN  IF s = "" THEN EmptyDict
             ELSE py_prisma_parse_parts(py_prisma_raw_parts(Split(s, ";")), 1,
                                        EmptyDict)

\* status_bucket(get_status(rec))
PyPrismaBucketOf == [rec \in AllRecords |-> py_prisma_status_bucket(get_status(rec))]

\* parse_screening_criteria(rec.get(screening_criteria_key))
PyPrismaParsedOf ==
    [rec \in AllRecords |->
        py_prisma_parse_screening_criteria(Get(rec, "screening_criteria"))]

PY_PRISMA_BUCKETS ==
    {"identified", "duplicate", "screened", "excluded", "fulltext", "included",
     "other"}

PyPrismaZeroBuckets == [b \in PY_PRISMA_BUCKETS |-> 0]

\* The locals after the body of the loop of py_prisma.records_to_status has
\* run on rec (lines 327-345).
py_prisma_loop_body(b, criteria, single, rec) ==
    LET bucket == PyPrismaBucketOf[rec]
        parsed == PyPrismaParsedOf[rec]
        reason == Get(rec, "exclusion_reason")
        r == Strip(IF reason = None THEN "" ELSE PyStr(reason))
    IN  [buckets |-> [b EXCEPT ![bucket] = @ + 1],
         criteria_reasons_count |->
             IF bucket = "excluded" /\ DOMAIN parsed # {}
             THEN [k \in DOMAIN criteria \cup DOMAIN parsed |->
                      DictGet(criteria, k) + DictGet(parsed, k)]
             ELSE criteria,
         single_reasons_count |->
             IF bucket = "excluded" /\ DOMAIN parsed = {} /\ r # ""
             THEN DictSet(single, r, DictGet(single, r) + 1)
             ELSE single]

\* The PrismaStatus py_prisma.records_to_status builds after the loop
\* (lines 347-389).
py_prisma_prisma_status(b, criteria, single, recs) ==
    LET screened_total == b["screened"] + b["excluded"] + b["fulltext"]
                          + b["included"]
        reports_sought == b["fulltext"] + b["included"]
        assessed == b["fulltext"] + b["included"]
        origin == py_prisma_compute_origin_stats(recs)
    IN  [databases |->
             IF origin[1] # None THEN origin[1]
             ELSE Num(b["identified"] + b["screened"] + b["fulltext"]
                      + b["included"] + b["excluded"] + b["other"]),
         registers |-> None,
         duplicates |-> IF origin[2] # None THEN origin[2] ELSE Num(b["duplicate"]),
         automation |-> None,
         other_removed |-> None,
         screened |-> screened_total,
         records_excluded |-> b["excluded"],
         reports_sought |-> reports_sought,
         not_retrieved |-> None,
         assessed |-> assessed,
         reports_excluded |->
             IF DOMAIN criteria # {} THEN Dict(criteria)
             ELSE IF DOMAIN single # {} THEN Dict(single)
             ELSE None,
         included |-> b["included"],
         new_reports |-> b["included"]]

(***************************************************************************)
(* Flexible "reasons" model: _to_int and normalize_reasons                 *)
(***************************************************************************)
DigitChars == {"0", "1", "2", "3", "4", "5", "6", "7", "8", "9"}

DigitVal(c) == CHOOSE d \in 0..9 : CharAt("0123456789", d + 1) = c

RECURSIVE DigitsVal(_)
DigitsVal(s) ==
    IF Len(s) = 0 THEN 0
    ELSE DigitsVal(SubSeq(s, 1, Len(s) - 1)) * 10 + DigitVal(CharAt(s, Len(s)))

\* The text after an optional sign.
Unsigned(s) ==
    IF Len(s) > 0 /\ CharAt(s, 1) \in {"+", "-"} THEN SubSeq(s, 2, Len(s)) ELSE s

\* int(s) accepts s: an optional sign and decimal digits, whitespace around
IsIntLiteral(s) ==
    LET body == Unsigned(Strip(s)) IN
    Len(body) > 0 /\ \A i \in 1..Len(body) : CharAt(body, i) \in DigitChars

\* int(x): the number, or the exception int() raises
PyInt(x) ==
    CASE x.tag = "int" -> x
      [] x.tag = "str" ->
            IF IsIntLiteral(x.val)
            THEN LET t == Strip(x.val) IN
                 Num(IF CharAt(t, 1) = "-" THEN 0 - DigitsVal(Unsigned(t))
                     ELSE DigitsVal(Unsigned(t)))
            ELSE Raise("ValueError")
      [] OTHER -> Raise("TypeError")

_to_int(x) ==
    IF x.tag = "None" THEN None
    ELSE IF x.tag = "int" THEN x
    ELSE IF x.tag = "str" /\ IsIntLiteral(x.val) THEN PyInt(x)
    ELSE None

RECURSIVE SumValues(_, _)
SumValues(d, keys) ==
    IF keys = {} THEN 0
    ELSE LET k == CHOOSE x \in keys : TRUE IN d[k].val + SumValues(d, keys \ {k})

\* sum(d.values()): adding a value that is not a number to 0 raises TypeError
PySum(d) ==
    IF \A k \in DOMAIN d : d[k].tag = "int" THEN Num(SumValues(d, DOMAIN d))
    ELSE Raise("TypeError")

\* {str(k): int(v) for k, v in d.items()}: the dict, or what int(v) raises on
\* a value it does not take
IntValues(d) ==
    LET conv == [k \in DOMAIN d |-> PyInt(d[k])] IN
    IF \E k \in DOMAIN d : conv[k].tag = "raise"
    THEN conv[CHOOSE k \in DOMAIN d : conv[k].tag = "raise"]
    ELSE Dict(conv)

\* value.get(key)
GetKey(d, key) == IF key \in DOMAIN d THEN d[key] ELSE None

\* a or b
Or(a, b) == IF Truthy(a) THEN a ELSE b

normalize_reasons(value) ==
    IF value.tag = "None" THEN ReasonCounts(None, None)
    ELSE IF value.tag = "ReasonCounts"
    THEN ReasonCounts(_to_int(value.total),
                      IF Truthy(value.by_reason) THEN value.by_reason ELSE None)
    ELSE IF value.tag = "int" THEN ReasonCounts(value, None)
    ELSE IF value.tag = "dict"
    THEN IF "total" \in DOMAIN value.val \/ "by_reason" \in DOMAIN value.val
         THEN LET total == _to_int(GetKey(value.val, "total"))
                  by == Or(GetKey(value.val, "by_reason"),
                           GetKey(value.val, "reasons"))
                  by_reason == IF by.tag = "dict" THEN by ELSE None
              IN  IF total.tag = "None" /\ Truthy(by_reason)
                  THEN LET summed == PySum(by_reason.val) IN
                       IF summed.tag = "raise" THEN summed
                       ELSE ReasonCounts(summed, by_reason)
                  ELSE ReasonCounts(total, by_reason)
         ELSE LET by_reason == IntValues(value.val) IN
              IF by_reason.tag = "raise" THEN by_reason
              ELSE ReasonCounts(PySum(by_reason.val), by_reason)
    ELSE ReasonCounts(_to_int(value), None)

\* normalize_reasons of py_prisma.py: a structured mapping's breakdown may
\* also be under "breakdown", and its values go through int()
py_prisma_normalize_reasons(value) ==
    IF value.tag = "None" THEN ReasonCounts(None, None)
    ELSE IF value.tag = "ReasonCounts"
    THEN ReasonCounts(_to_int(value.total),
                      IF Truthy(value.by_reason) THEN value.by_reason ELSE None)
    ELSE IF value.tag = "int" THEN ReasonCounts(value, None)
    ELSE IF value.tag = "dict"
    THEN IF "by_reason" \in DOMAIN value.val \/ "total" \in DOMAIN value.val
         THEN LET total == _to_int(GetKey(value.val, "total"))
                  by == Or(Or(GetKey(value.val, "by_reason"),
                              GetKey(value.val, "reasons")),
                           GetKey(value.val, "breakdown"))
                  by_reason == IF by.tag = "dict" THEN IntValues(by.val) ELSE None
              IN  IF by_reason.tag = "raise" THEN by_reason
                  ELSE IF total.tag = "None" /\ Truthy(by_reason)
                  THEN ReasonCounts(PySum(by_reason.val), by_reason)
                  ELSE ReasonCounts(total, by_reason)
         ELSE LET by_reason2 == IntValues(value.val) IN
              IF by_reason2.tag = "raise" THEN by_reason2
              ELSE ReasonCounts(PySum(by_reason2.val), by_reason2)
    ELSE ReasonCounts(_to_int(value), None)

(***************************************************************************)
(* The runs.  records_to_status is run record by record (Step) and then    *)
(* returns (Return); a pure function is called once on its argument.       *)
(***************************************************************************)
\* The body of `for rec in records.values()` on the next record.
Step ==
    /\ fn = "records_to_status"
    /\ pc = "loop"
    /\ pos <= Len(records)
    /\ LET l == loop_body(buckets, fulltext_reasons, records[pos].rec) IN
         /\ buckets' = l.buckets
         /\ fulltext_reasons' = l.fulltext_reasons
    /\ pos' = pos + 1
    /\ UNCHANGED <<records, criteria_reasons_count, single_reasons_count, returned,
                   fn, arg, ret, entries, pc, workers>>

\* The loop is over: derive the totals, compute the origin statistics, return.
Return ==
    /\ fn = "records_to_status"
    /\ pc = "loop"
    /\ pos > Len(records)
    /\ returned' = prisma_status(buckets, fulltext_reasons, records)
    /\ pc' = "done"
    /\ UNCHANGED <<records, pos, buckets, fulltext_reasons, criteria_reasons_count,
                   single_reasons_count, fn, arg, ret, entries, workers>>

\* The body of `for _rid, rec in records.items()` of py_prisma.py.
PyPrismaStep ==
    /\ fn = "py_prisma.records_to_status"
    /\ pc = "loop"
    /\ pos <= Len(records)
    /\ LET l == py_prisma_loop_body(buckets, criteria_reasons_count,
                                    single_reasons_count, records[pos].rec) IN
         /\ buckets' = l.buckets
         /\ criteria_reasons_count' = l.criteria_reasons_count
         /\ single_reasons_count' = l.single_reasons_count
    /\ pos' = pos + 1
    /\ UNCHANGED <<records, fulltext_reasons, returned, fn, arg, ret, entries, pc, workers>>

\* The loop of py_prisma.py is over: derive the totals and return.
PyPrismaReturn ==
    /\ fn = "py_prisma.records_to_status"
    /\ pc = "loop"
    /\ pos > Len(records)
    /\ returned' = py_prisma_prisma_status(buckets, criteria_reasons_count,
                                           single_reasons_count, records)
    /\ pc' = "done"
    /\ UNCHANGED <<records, pos, buckets, fulltext_reasons, criteria_reasons_count,
                   single_reasons_count, fn, arg, ret, entries, workers>>

\* The records no worker has taken yet, by their place.
Untaken == DOMAIN records \ UNION {workers[w].taken : w \in DOMAIN workers}

\* A worker takes a record no worker has taken and runs the body of the loop
\* on it, with its own counters and tally.
WorkerStep(w) ==
    /\ fn = "records_to_status (parallel)"
    /\ pc = "loop"
    /\ \E i \in Untaken :
          LET l == loop_body(workers[w].buckets, workers[w].fulltext_reasons,
                             records[i].rec) IN
          workers' = [workers EXCEPT ![w] =
                         [taken |-> @.taken \cup {i}, buckets |-> l.buckets,
                          fulltext_reasons |-> l.fulltext_reasons]]
    /\ UNCHANGED <<records, pos, buckets, fulltext_reasons, criteria_reasons_count,
                   single_reasons_count, returned, fn, arg, ret, entries, pc>>

\* The sum of the first w of the workers' partial counts.
RECURSIVE SumWorkers(_, _)
SumWorkers(counts, w) == IF w = 0 THEN 0 ELSE counts[w] + SumWorkers(counts, w - 1)

\* Every record is taken: the workers' counters and tallies are summed key
\* by key, the totals derived from the sums and the summary returned.
Reduce ==
    /\ fn = "records_to_status (parallel)"
    /\ pc = "loop"
    /\ Untaken = {}
    /\ LET b == [k \in BUCKETS |->
                    SumWorkers([w \in DOMAIN workers |-> workers[w].buckets[k]],
                               Len(workers))]
           keys == UNION {DOMAIN workers[w].fulltext_reasons : w \in DOMAIN workers}
           reasons == [k \in keys |->
                          SumWorkers([w \in DOMAIN workers |->
                                         DictGet(workers[w].fulltext_reasons, k)],
                                     Len(workers))]
       IN  /\ buckets' = b
           /\ fulltext_reasons' = reasons
           /\ returned' = prisma_status(b, reasons, records)
    /\ pc' = "done"
    /\ UNCHANGED <<records, pos, criteria_reasons_count, single_reasons_count, workers,
                   fn, arg, ret, entries>>

CallStatusBucket ==
    /\ fn = "status_bucket"
    /\ pc = "call"
    /\ ret' = Str(status_bucket(arg.val))
    /\ pc' = "done"
    /\ UNCHANGED <<records, pos, buckets, fulltext_reasons, criteria_reasons_count,
                   single_reasons_count, returned, fn, arg, entries, workers>>

CallGetStatus ==
    /\ fn = "get_status"
    /\ pc = "call"
    /\ ret' = Str(get_status(arg))
    /\ pc' = "done"
    /\ UNCHANGED <<records, pos, buckets, fulltext_reasons, criteria_reasons_count,
                   single_reasons_count, returned, fn, arg, entries, workers>>

CallParseScreeningCriteria ==
    /\ fn = "parse_screening_criteria"
    /\ pc = "call"
    /\ ret' = Dict(parse_screening_criteria(arg))
    /\ pc' = "done"
    /\ UNCHANGED <<records, pos, buckets, fulltext_reasons, criteria_reasons_count,
                   single_reasons_count, returned, fn, arg, entries, workers>>

PyPrismaCallParseScreeningCriteria ==
    /\ fn = "py_prisma.parse_screening_criteria"
    /\ pc = "call"
    /\ ret' = Dict(py_prisma_parse_screening_criteria(arg))
    /\ pc' = "done"
    /\ UNCHANGED <<records, pos, buckets, fulltext_reasons, criteria_reasons_count,
                   single_reasons_count, returned, fn, arg, entries, workers>>

\* normalize_reasons called on its argument, and then on what it returned
CallNormalizeReasons ==
    /\ fn = "normalize_reasons"
    /\ pc = "call" \/ (pc = "done" /\ ret.tag = "ReasonCounts")
    /\ LET value == IF pc = "call" THEN arg ELSE ret IN
         /\ arg' = value
         /\ ret' = normalize_reasons(value)
    /\ pc' = IF pc = "call" THEN "done" ELSE "again"
    /\ UNCHANGED <<records, pos, buckets, fulltext_reasons, criteria_reasons_count,
                   single_reasons_count, returned, fn, entries, workers>>

\* normalize_reasons of py_prisma.py, the same way
PyPrismaCallNormalizeReasons ==
    /\ fn = "py_prisma.normalize_reasons"
    /\ pc = "call" \/ (pc = "done" /\ ret.tag = "ReasonCounts")
    /\ LET value == IF pc = "call" THEN arg ELSE ret IN
         /\ arg' = value
         /\ ret' = py_prisma_normalize_reasons(value)
    /\ pc' = IF pc = "call" THEN "done" ELSE "again"
    /\ UNCHANGED <<records, pos, buckets, fulltext_reasons, criteria_reasons_count,
                   single_reasons_count, returned, fn, entries, workers>>

InitRun(recs) ==
    /\ records = recs
    /\ pos = 1
    /\ buckets = ZeroBuckets
    /\ fulltext_reasons = EmptyDict
    /\ criteria_reasons_count = EmptyDict
    /\ single_reasons_count = EmptyDict
    /\ workers = <<>>
    /\ returned = None
    /\ fn = "records_to_status"
    /\ arg = None
    /\ ret = None
    /\ entries = <<>>
    /\ pc = "loop"

InitPyPrismaRun(recs) ==
    /\ records = recs
    /\ pos = 1
    /\ buckets = PyPrismaZeroBuckets
    /\ fulltext_reasons = EmptyDict
    /\ criteria_reasons_count = EmptyDict
    /\ single_reasons_count = EmptyDict
    /\ workers = <<>>
    /\ returned = None
    /\ fn = "py_prisma.records_to_status"
    /\ arg = None
    /\ ret = None
    /\ entries = <<>>
    /\ pc = "loop"

InitCall(f, a, es) ==
    /\ records = <<>>
    /\ pos = 1
    /\ buckets = ZeroBuckets
    /\ fulltext_reasons = EmptyDict
    /\ criteria_reasons_count = EmptyDict
    /\ single_reasons_count = EmptyDict
    /\ workers = <<>>
    /\ returned = None
    /\ fn = f
    /\ arg = a
    /\ ret = None
    /\ entries = es
    /\ pc = "call"

\* records_to_status on collections of records of every bucket
Init ==
    \E k \in 0..MaxRecords :
        \E f \in [1..k -> FlowRecords], p \in [1..k -> {"r"}] :
            InitRun(Collection(f, p))

Next == Step \/ Return

Spec == Init /\ [][Next]_vars

\* records_to_status on collections of records excluded with reasons
InitReasons ==
    \E k \in 0..MaxReasonRecords :
        \E f \in [1..k -> ReasonRecords], p \in [1..k -> {"r"}] :
            InitRun(Collection(f, p))

SpecReasons == InitReasons /\ [][Next]_vars

\* records_to_status of either module on collections of records excluded
\* with reasons
InitTally ==
    \E k \in 0..MaxReasonRecords :
        \E f \in [1..k -> TallyRecords], p \in [1..k -> {"r"}] :
            \/ InitRun(Collection(f, p))
            \/ InitPyPrismaRun(Collection(f, p))

NextTally == Step \/ Return \/ PyPrismaStep \/ PyPrismaReturn

SpecTally == InitTally /\ [][NextTally]_vars

\* records_to_status on collections with and without origin tracking
InitOrigin ==
    \E k \in 0..MaxOriginRecords :
        \E f \in [1..k -> OriginRecords], p \in [1..k -> {"r", "md_"}] :
            InitRun(Collection(f, p))

SpecOrigin == InitOrigin /\ [][Next]_vars

\* records_to_status on collections whose order matters to a tally
InitOrder ==
    \E k \in 0..MaxOrderRecords :
        \E f \in [1..k -> OrderRecords], p \in [1..k -> {"r", "md_"}] :
            InitRun(Collection(f, p))

SpecOrder == InitOrder /\ [][Next]_vars

\* status_bucket on a status string
InitBucket ==
    \E s \in Statuses(MaxStatusParts) : InitCall("status_bucket", Str(s), <<>>)

NextBucket == CallStatusBucket

SpecBucket == InitBucket /\ [][NextBucket]_vars

\* parse_screening_criteria on a missing field or on a written field
InitParse ==
    \/ \E v \in {None, Str(""), Str(" "), Str("{}"), Num(0), Num(1), List(<<>>)} :
          InitCall("parse_screening_criteria", v, <<>>)
    \/ \E es \in EntryLists, style \in EntryStyles :
          InitCall("parse_screening_criteria", Str(WriteCriteria(es, style)), es)

NextParse == CallParseScreeningCriteria

SpecParse == InitParse /\ [][NextParse]_vars

\* records_to_status on collections with records of unrecognised status
InitOther ==
    \E k \in 0..MaxOtherRecords :
        \E f \in [1..k -> OtherRecords], p \in [1..k -> {"r"}] :
            InitRun(Collection(f, p))

SpecOther == InitOther /\ [][Next]_vars

\* parse_screening_criteria of either module on a field of one entry whose
\* value is a vocabulary token written bare, in upper case, quoted or braced
InitFold ==
    \E f \in {"parse_screening_criteria", "py_prisma.parse_screening_criteria"},
       es \in WrappedEntries, style \in EntryStyles :
        InitCall(f, Str(WriteCriteria(es, style)), es)

NextFold == CallParseScreeningCriteria \/ PyPrismaCallParseScreeningCriteria

SpecFold == InitFold /\ [][NextFold]_vars

\* The loop of records_to_status shared among NumWorkers workers
InitParallel ==
    \E k \in 0..MaxParallelRecords :
        \E f \in [1..k -> OrderRecords], p \in [1..k -> {"r"}] :
            /\ records = Collection(f, p)
            /\ pos = 1
            /\ buckets = ZeroBuckets
            /\ fulltext_reasons = EmptyDict
            /\ criteria_reasons_count = EmptyDict
            /\ single_reasons_count = EmptyDict
            /\ workers = [w \in 1..NumWorkers |->
                             [taken |-> {}, buckets |-> ZeroBuckets,
                              fulltext_reasons |-> EmptyDict]]
            /\ returned = None
            /\ fn = "records_to_status (parallel)"
            /\ arg = None
            /\ ret = None
            /\ entries = <<>>
            /\ pc = "loop"

NextParallel == (\E w \in 1..NumWorkers : WorkerStep(w)) \/ Reduce

SpecParallel == InitParallel /\ [][NextParallel]_vars

\* get_status on a record
InitStatus == \E rec \in StatusRecords : InitCall("get_status", rec, <<>>)

NextStatus == CallGetStatus

SpecStatus == InitStatus /\ [][NextStatus]_vars

\* normalize_reasons of either module on a reasons-like value
InitNormalize ==
    \E f \in {"normalize_reasons", "py_prisma.normalize_reasons"}, v \in ReasonsLike :
        InitCall(f, v, <<>>)

NextNormalize == CallNormalizeReasons \/ PyPrismaCallNormalizeReasons

SpecNormalize == InitNormalize /\ [][NextNormalize]_vars

(***************************************************************************)
(* Claims                                                                  *)
(***************************************************************************)
Done == pc = "done"

\* The rules of the Status Classifier, in priority order.
ClassifierRules ==
    <<[markers |-> {"rev_prescreen_excluded"}, tag |-> "prescreen_excluded"],
      [markers |-> {"excluded", "reject"}, tag |-> "fulltext_excluded"],
      [markers |-> {"prescreen", "screened"}, tag |-> "screened"],
      [markers |-> {"pdf_needs_manual_retrieval", "pdf_not_available"},
       tag |-> "pdf_not_retrieved"],
      [markers |-> {"pdf_imported", "pdf_needs_manual_preparation", "pdf_prepared"},
       tag |-> "pdf_retrieved"],
      [markers |-> {"included", "accept", "synth"}, tag |-> "included"],
      [markers |-> {"duplicate", "dedupe"}, tag |-> "duplicate"]>>

RuleMatches(s, i) == \E m \in ClassifierRules[i].markers : Contains(Lower(s), m)

\* C1: status_bucket returns one tag of the closed set, the tag of the first
\* rule (in priority order) one of whose markers the status contains, and
\* "other" when no rule matches; "rev_prescreen_excluded" is
\* prescreen_excluded, and a status with a screening marker and "excluded" is
\* in an exclusion bucket, never in screened.
C1_FirstMatchingRule ==
    Done =>
        LET s == arg.val
            b == ret.val
        IN  /\ b \in {"prescreen_excluded", "fulltext_excluded", "screened",
                      "pdf_not_retrieved", "pdf_retrieved", "included",
                      "duplicate", "other"}
            /\ \A i \in DOMAIN ClassifierRules :
                  b = ClassifierRules[i].tag
                    <=> (RuleMatches(s, i) /\ \A j \in 1..(i - 1) : ~RuleMatches(s, j))
            /\ b = "other" <=> \A i \in DOMAIN ClassifierRules : ~RuleMatches(s, i)
            /\ s = "rev_prescreen_excluded" => b = "prescreen_excluded"
            /\ (Contains(Lower(s), "screen") /\ Contains(Lower(s), "excluded"))
                  => b \in {"prescreen_excluded", "fulltext_excluded"}

C1_Witness ==
    /\ Done
    /\ arg.val = "rev_prescreen_excluded"
    /\ ret.val = "prescreen_excluded"

\* C2: the PrismaStatus returned has reports_sought = screened - records_excluded.
C2_ReportsSoughtIdentity ==
    Done => returned.reports_sought = returned.screened - returned.records_excluded

C2_Witness ==
    /\ Done
    /\ returned.records_excluded > 0
    /\ returned.reports_sought > 0
    /\ returned.not_retrieved > 0

\* The number of records of the collection in bucket b.
InBucket(b) == Cardinality({i \in DOMAIN records : BucketOf[records[i].rec] = b})

\* C3: the fields returned are the bucket counts and their sums: screened is
\* the records screened, prescreen-excluded, not retrieved, retrieved and
\* included, records_excluded the prescreen-excluded ones, assessed the
\* retrieved and included ones, not_retrieved the ones not retrieved, included
\* and new_reports the included ones; the statuses rev_prescreen_excluded,
\* pdf_prepared, rev_included, rev_included give 4, 1, 3, 3 and 2.
C3_FieldsAreBucketCounts ==
    Done =>
        /\ returned.screened =
              InBucket("screened") + InBucket("prescreen_excluded")
              + InBucket("pdf_not_retrieved") + InBucket("pdf_retrieved")
              + InBucket("included")
        /\ returned.records_excluded = InBucket("prescreen_excluded")
        /\ returned.assessed = InBucket("pdf_retrieved") + InBucket("included")
        /\ returned.not_retrieved = InBucket("pdf_not_retrieved")
        /\ returned.included = InBucket("included")
        /\ returned.new_reports = InBucket("included")
        /\ [i \in DOMAIN records |-> get_status(records[i].rec)]
              = <<"rev_prescreen_excluded", "pdf_prepared", "rev_included", "rev_included">>
           => /\ returned.screened = 4
              /\ returned.records_excluded = 1
              /\ returned.reports_sought = 3
              /\ returned.assessed = 3
              /\ returned.included = 2

C3_Witness ==
    /\ Done
    /\ [i \in DOMAIN records |-> get_status(records[i].rec)]
          = <<"rev_prescreen_excluded", "pdf_prepared", "rev_included", "rev_included">>
    /\ returned.screened = 4

\* The collection in the order p, a permutation of its places.
Reordered(p) == [i \in DOMAIN records |-> records[p[i]]]

\* C4: records_to_status does not depend on the order of the records: run on
\* any permutation of the collection it returns the same PrismaStatus, field
\* by field, reports_excluded as a mapping from reason to count.
C4_OrderIndependent ==
    Done =>
        \A p \in Permutations(DOMAIN records) :
            LET other == records_to_status(Reordered(p)) IN
            \A f \in DOMAIN returned : other[f] = returned[f]

C4_Witness ==
    /\ Done
    /\ Len(records) = 3
    /\ records[1].rec # records[2].rec
    /\ records[2].rec # records[3].rec
    /\ returned.reports_excluded # None
    /\ returned.databases # None

\* The sum of the counts of a tally.
RECURSIVE SumOver(_, _)
SumOver(d, keys) ==
    IF keys = {} THEN 0
    ELSE LET k == CHOOSE x \in keys : TRUE IN d[k] + SumOver(d, keys \ {k})

TallySum(d) == SumOver(d, DOMAIN d)

\* The tally reports_excluded holds: empty when it is None.
ReturnedTally ==
    IF returned.reports_excluded = None THEN EmptyDict
    ELSE returned.reports_excluded.val

\* The places of the records in the fulltext_excluded bucket.
FulltextExcluded ==
    {i \in DOMAIN records : BucketOf[records[i].rec] = "fulltext_excluded"}

\* The criteria of a record that its screening-criteria field flags as out.
FlaggedOut(rec) == {k \in DOMAIN ParsedOf[rec] : ParsedOf[rec][k] = 1}

\* The fallback reason of a record, trimmed; "" when it has none.
FreeTextReason(rec) ==
    IF Get(rec, "exclusion_reason") = None THEN ""
    ELSE Strip(Get(rec, "exclusion_reason").val)

\* C5 as claimed: the counts of the reason tally sum to at most the number
\* of records in the fulltext_excluded bucket.
C5_TallySumAtMostBucket ==
    Done => TallySum(ReturnedTally) <= buckets["fulltext_excluded"]

\* C5 (amended): every count of the reason tally is at most the number of
\* records in the fulltext_excluded bucket, and the counts sum to at most
\* that number when no fulltext_excluded record has more than one criterion
\* flagged out.
C5_CountsAtMostBucket ==
    Done =>
        /\ buckets["fulltext_excluded"] = Cardinality(FulltextExcluded)
        /\ \A k \in DOMAIN ReturnedTally :
              ReturnedTally[k] <= Cardinality(FulltextExcluded)
        /\ (\A i \in FulltextExcluded : Cardinality(FlaggedOut(records[i].rec)) <= 1)
              => TallySum(ReturnedTally) <= Cardinality(FulltextExcluded)

C5_Witness ==
    /\ Done
    /\ Cardinality(FulltextExcluded) = 2
    /\ \A i \in FulltextExcluded : Cardinality(FlaggedOut(records[i].rec)) <= 1
    /\ TallySum(ReturnedTally) = 1

\* C6 as claimed: when every fulltext_excluded record has a criterion (its
\* screening-criteria field parses to at least one entry) or a non-empty
\* fallback reason, the counts of the reason tally sum to the number of
\* fulltext_excluded records.
C6_TallySumEqualsBucket ==
    (Done /\ \A i \in FulltextExcluded :
                \/ DOMAIN ParsedOf[records[i].rec] # {}
                \/ FreeTextReason(records[i].rec) # "")
        => TallySum(ReturnedTally) = buckets["fulltext_excluded"]

\* C6 (amended): when every fulltext_excluded record either has exactly one
\* criterion flagged out, or has a screening-criteria field that parses to
\* nothing and a non-empty fallback reason, the counts of the reason tally
\* sum to the number of fulltext_excluded records.
C6_OneReasonPerRecord ==
    (Done /\ \A i \in FulltextExcluded :
                \/ Cardinality(FlaggedOut(records[i].rec)) = 1
                \/ /\ DOMAIN ParsedOf[records[i].rec] = {}
                   /\ FreeTextReason(records[i].rec) # "")
        => TallySum(ReturnedTally) = buckets["fulltext_excluded"]

C6_Witness ==
    /\ Done
    /\ Cardinality(FulltextExcluded) = 3
    /\ \E i \in FulltextExcluded : Cardinality(FlaggedOut(records[i].rec)) = 1
    /\ \E i \in FulltextExcluded :
          /\ DOMAIN ParsedOf[records[i].rec] = {}
          /\ FreeTextReason(records[i].rec) # ""
    /\ \A i \in FulltextExcluded :
          \/ Cardinality(FlaggedOut(records[i].rec)) = 1
          \/ /\ DOMAIN ParsedOf[records[i].rec] = {}
             /\ FreeTextReason(records[i].rec) # ""
    /\ TallySum(ReturnedTally) = 3

\* What one pass of the loop of loader.py does to the reason tally, for the
\* record rec.
TallyEffect(rec) ==
    LET parsed == parse_screening_criteria(Get(rec, "screening_criteria"))
        bucket == status_bucket(get_status(rec))
        r == FreeTextReason(rec)
    IN  /\ bucket # "fulltext_excluded" => fulltext_reasons' = fulltext_reasons
        /\ (bucket = "fulltext_excluded" /\ DOMAIN parsed # {}) =>
              /\ DOMAIN fulltext_reasons' = DOMAIN fulltext_reasons \cup DOMAIN parsed
              /\ \A k \in DOMAIN fulltext_reasons' :
                    fulltext_reasons'[k] =
                        DictGet(fulltext_reasons, k) + DictGet(parsed, k)
        /\ (bucket = "fulltext_excluded" /\ DOMAIN parsed = {}) =>
              /\ DOMAIN fulltext_reasons' =
                    DOMAIN fulltext_reasons \cup (IF r = "" THEN {} ELSE {r})
              /\ \A k \in DOMAIN fulltext_reasons' :
                    fulltext_reasons'[k] =
                        DictGet(fulltext_reasons, k) + IF k = r THEN 1 ELSE 0

\* The same for the loop of py_prisma.py, whose tally is the pair of
\* criteria_reasons_count and single_reasons_count and whose bucket of
\* records excluded with reasons is "excluded".
PyPrismaTallyEffect(rec) ==
    LET parsed == py_prisma_parse_screening_criteria(Get(rec, "screening_criteria"))
        bucket == py_prisma_status_bucket(get_status(rec))
        r == FreeTextReason(rec)
    IN  /\ bucket # "excluded" =>
              /\ criteria_reasons_count' = criteria_reasons_count
              /\ single_reasons_count' = single_reasons_count
        /\ (bucket = "excluded" /\ DOMAIN parsed # {}) =>
              /\ single_reasons_count' = single_reasons_count
              /\ DOMAIN criteria_reasons_count' =
                    DOMAIN criteria_reasons_count \cup DOMAIN parsed
              /\ \A k \in DOMAIN criteria_reasons_count' :
                    criteria_reasons_count'[k] =
                        DictGet(criteria_reasons_count, k) + DictGet(parsed, k)
        /\ (bucket = "excluded" /\ DOMAIN parsed = {}) =>
              /\ criteria_reasons_count' = criteria_reasons_count
              /\ DOMAIN single_reasons_count' =
                    DOMAIN single_reasons_count \cup (IF r = "" THEN {} ELSE {r})
              /\ \A k \in DOMAIN single_reasons_count' :
                    single_reasons_count'[k] =
                        DictGet(single_reasons_count, k) + IF k = r THEN 1 ELSE 0

\* C7: in the loop of either module, a record excluded with reasons has its
\* free-text reason tallied only if its screening-criteria field parses to
\* nothing; when the parse yields entries each criterion's flag is added
\* under the criterion's name and the free text adds nothing; a record of
\* another bucket leaves the tally as it is.
C7_FallbackOnlyOnEmptyParse ==
    [][pos' = pos + 1 =>
          IF fn = "records_to_status" THEN TallyEffect(records[pos].rec)
          ELSE PyPrismaTallyEffect(records[pos].rec)]_vars

C7_Witness ==
    /\ fn = "records_to_status"
    /\ pos > 1
    /\ BucketOf[records[pos - 1].rec] = "fulltext_excluded"
    /\ ParsedOf[records[pos - 1].rec] = [k \in {"a", "b"} |-> IF k = "b" THEN 1 ELSE 0]
    /\ FreeTextReason(records[pos - 1].rec) = "x"
    /\ fulltext_reasons = [k \in {"a", "b"} |-> IF k = "b" THEN 1 ELSE 0]

\* The origin value of the record at place i.
OriginAt(i) == Get(records[i].rec, "colrev_origin")

\* The places of the records whose id does not start with the exclusion prefix.
Kept ==
    {i \in DOMAIN records :
        ~(Len(records[i].rid) >= 3 /\ SubSeq(records[i].rid, 1, 3) = "md_")}

\* The non-empty trimmed parts of an origin value, by where they start: in a
\* string the parts between ';' that hold more than whitespace, in a list
\* its elements that do.
PartPlaces(v) ==
    IF v.tag = "str"
    THEN {i \in 1..Len(v.val) :
            /\ i = 1 \/ CharAt(v.val, i - 1) = ";"
            /\ \E j \in i..Len(v.val) :
                  /\ CharAt(v.val, j) \notin {" ", "\t", "\n", ";"}
                  /\ \A k \in i..j : CharAt(v.val, k) # ";"}
    ELSE IF v.tag = "list"
    THEN {i \in DOMAIN v.val :
            \E j \in 1..Len(v.val[i]) : CharAt(v.val[i], j) \notin {" ", "\t", "\n"}}
    ELSE {}

\* C8 as claimed: (None, None) is returned exactly when no record of the whole
\* collection has an origin value (one with a non-empty trimmed part); when
\* some record has one, both components are integers.
C8_NoneIffNoOriginInCollection ==
    Done =>
        /\ (returned.databases = None /\ returned.duplicates = None)
              <=> \A i \in DOMAIN records : PartPlaces(OriginAt(i)) = {}
        /\ (\E i \in DOMAIN records : PartPlaces(OriginAt(i)) # {})
              => (returned.databases.tag = "int" /\ returned.duplicates.tag = "int")

\* C8 (amended): (None, None) is returned exactly when no record whose id does
\* not start with the exclusion prefix has an origin value with a non-empty
\* trimmed part; when such a record has one, both components are integers.
C8_NoneIffNoOriginPartKept ==
    Done =>
        /\ (returned.databases = None /\ returned.duplicates = None)
              <=> \A i \in Kept : PartPlaces(OriginAt(i)) = {}
        /\ (\E i \in Kept : PartPlaces(OriginAt(i)) # {})
              => (returned.databases.tag = "int" /\ returned.duplicates.tag = "int")

C8_Witness ==
    /\ Done
    /\ \E i \in DOMAIN records : i \notin Kept /\ PartPlaces(OriginAt(i)) # {}
    /\ \E i \in Kept : OriginAt(i) = Str(" ;")
    /\ \A i \in Kept : PartPlaces(OriginAt(i)) = {}
    /\ returned.databases = None
    /\ returned.duplicates = None

\* The origin parts of the kept records, each with its record's place.
KeptParts == UNION {{<<i, k>> : k \in PartPlaces(OriginAt(i))} : i \in Kept}

\* C9: when origin tracking is in use (a kept record has an origin part), the
\* first component is the number of non-empty trimmed parts of the origin
\* fields of the records whose id does not start with the exclusion prefix,
\* the second is that number less the number of those records, floored at 0,
\* so never negative; r1: "a;b", r2: "c" give 3 and 1.
C9_TotalsAndClampedDuplicates ==
    Done =>
        /\ KeptParts # {} =>
              /\ returned.databases = Num(Cardinality(KeptParts))
              /\ returned.duplicates =
                    Num(IF Cardinality(KeptParts) > Cardinality(Kept)
                        THEN Cardinality(KeptParts) - Cardinality(Kept) ELSE 0)
              /\ returned.duplicates.val >= 0
        /\ ( /\ Len(records) = 2
             /\ records[1].rid = "r1" /\ OriginAt(1) = Str("a;b")
             /\ records[2].rid = "r2" /\ OriginAt(2) = Str("c") )
           => (returned.databases = Num(3) /\ returned.duplicates = Num(1))

C9_Witness ==
    /\ Done
    /\ Len(records) = 3
    /\ Cardinality(Kept) = 3
    /\ Cardinality(KeptParts) = 1
    /\ returned.databases = Num(1)
    /\ returned.duplicates = Num(0)

\* The entries of the argument that have a separator and a value of one of
\* the two vocabularies, by their place.
Recognised ==
    {i \in DOMAIN entries :
        /\ entries[i].sep \in {"=", ":"}
        /\ entries[i].val \in {"out", "exclude", "excluded", "0", "false", "no",
                               "in", "include", "included", "1", "true", "yes"}}

\* C10: for each entry key=value (or key:value) the key is emitted with flag 1
\* when the value is one of out/exclude/excluded/0/false/no and with flag 0
\* when it is one of in/include/included/1/true/yes (the last such entry of a
\* key decides), and nothing is emitted for another value;
\* "{non-empirical=in;bias=out}" gives non-empirical: 0, bias: 1.
C10_VocabularyFlags ==
    Done =>
        /\ \A i \in Recognised :
              (\A j \in Recognised : j > i => entries[j].key # entries[i].key)
                 => /\ entries[i].key \in DOMAIN ret.val
                    /\ ret.val[entries[i].key] =
                          IF entries[i].val \in
                                {"out", "exclude", "excluded", "0", "false", "no"}
                          THEN 1 ELSE 0
        /\ \A k \in DOMAIN ret.val : \E i \in Recognised : entries[i].key = k
        /\ arg = Str("{non-empirical=in;bias=out}")
              => ret.val = [k \in {"non-empirical", "bias"} |->
                               IF k = "bias" THEN 1 ELSE 0]

C10_Witness ==
    /\ Done
    /\ arg = Str("{non-empirical=in;bias=out}")
    /\ DOMAIN ret.val = {"non-empirical", "bias"}
    /\ ret.val["non-empirical"] = 0
    /\ ret.val["bias"] = 1

\* The entries es without the one at place i.
WithoutEntry(es, i) == SubSeq(es, 1, i - 1) \o SubSeq(es, i + 1, Len(es))

\* The entries of the argument that lack a separator or whose value is of
\* neither vocabulary.
Malformed == DOMAIN entries \ Recognised

\* C11: parse_screening_criteria returns a mapping for every input, the empty
\* one for a missing or empty input; an entry without separator or with an
\* unrecognised value is skipped alone: the result is that of the same field
\* written without the entry, and a field of malformed entries only gives
\* the empty mapping.
C11_MalformedSkippedAlone ==
    Done =>
        /\ ret.tag = "dict"
        /\ ~Truthy(arg) => ret.val = EmptyDict
        /\ Recognised = {} => ret.val = EmptyDict
        /\ \A style \in EntryStyles :
              (arg.tag = "str" /\ arg.val = WriteCriteria(entries, style)) =>
                  \A i \in Malformed :
                      parse_screening_criteria(
                          Str(WriteCriteria(WithoutEntry(entries, i), style))) = ret.val

C11_Witness ==
    /\ Done
    /\ Len(entries) = 2
    /\ 1 \in Malformed
    /\ entries[1].sep = ""
    /\ 2 \in Recognised
    /\ ret.val = [k \in {entries[2].key} |-> 1]

\* C12 as claimed: normalize_reasons is idempotent: called on what it
\* returned, it returns a ReasonCounts equal to it in total and by_reason.
C12_NormalizeIdempotent ==
    (fn = "normalize_reasons" /\ pc = "again") =>
        /\ ret.total = arg.total
        /\ ret.by_reason = arg.by_reason

\* The input has no total of its own: a mapping without the key total or
\* with None under it, or a ReasonCounts whose total is None.
NoOwnTotal(value) ==
    \/ value.tag = "dict" /\ GetKey(value.val, "total").tag = "None"
    \/ value.tag = "ReasonCounts" /\ value.total.tag = "None"

\* A direct reason-to-count mapping: no key total or by_reason, counts only.
DirectCounts(value) ==
    /\ value.tag = "dict"
    /\ "total" \notin DOMAIN value.val
    /\ "by_reason" \notin DOMAIN value.val
    /\ \A k \in DOMAIN value.val : value.val[k].tag = "int"

\* C13 as claimed: whenever normalize_reasons returns a breakdown and the
\* input had no total of its own, the total returned is the sum of the
\* breakdown's values; a direct mapping is returned as the breakdown with
\* its sum as total ({a: 2, b: 3} gives 5), and a structured mapping with a
\* breakdown and no total has its total derived the same way.
C13_TotalIsSumOfBreakdown ==
    (Done /\ fn = "normalize_reasons" /\ ret.tag = "ReasonCounts") =>
        /\ (ret.by_reason.tag = "dict" /\ NoOwnTotal(arg))
              => ret.total = PySum(ret.by_reason.val)
        /\ DirectCounts(arg)
              => /\ ret.by_reason = arg
                 /\ ret.total = Num(SumValues(arg.val, DOMAIN arg.val))
        /\ arg = Dict([k \in {"a", "b"} |-> IF k = "a" THEN Num(2) ELSE Num(3)])
              => ret.total = Num(5)

\* C14 as claimed: normalize_reasons of either module returns a ReasonCounts
\* for every input and never raises.
C14_NormalizeNeverRaises ==
    Done => ret.tag = "ReasonCounts"

\* The status of the record matches no rule of the classifier.
Unmatched(rec) == \A i \in DOMAIN ClassifierRules : ~RuleMatches(get_status(rec), i)

\* The collection without the record at place i.
WithoutRecord(i) == SubSeq(records, 1, i - 1) \o SubSeq(records, i + 1, Len(records))

BucketDerivedFields ==
    {"screened", "records_excluded", "reports_sought", "not_retrieved", "assessed",
     "reports_excluded", "included", "new_reports"}

\* C15: records_to_status returns for every collection; the records whose
\* status matches no rule are counted in the bucket other and in no other
\* bucket, and the summary of the collection without such a record has the
\* same bucket-derived fields.
C15_UnmatchedOnlyInOther ==
    Done =>
        /\ buckets["other"] = Cardinality({i \in DOMAIN records : Unmatched(records[i].rec)})
        /\ \A b \in BUCKETS \ {"other"} :
              buckets[b] = Cardinality({i \in DOMAIN records :
                                          /\ ~Unmatched(records[i].rec)
                                          /\ BucketOf[records[i].rec] = b})
        /\ \A i \in DOMAIN records :
              Unmatched(records[i].rec) =>
                  LET without == records_to_status(WithoutRecord(i)) IN
                  \A f \in BucketDerivedFields : without[f] = returned[f]

C15_Witness ==
    /\ Done
    /\ Len(records) = 3
    /\ Unmatched(records[2].rec)
    /\ Get(records[2].rec, "screening_criteria") = Str("{a=out}")
    /\ buckets["other"] = 1
    /\ returned.screened = 1
    /\ returned.reports_excluded = Dict([k \in {"a"} |-> 1])

\* C16 as claimed: in the summary of either module, registers, automation
\* and other_removed are unknown (None), and databases and duplicates are
\* unknown when no record of the collection has an origin field.
C16_AbsentIsUnknown ==
    Done =>
        /\ returned.registers = None
        /\ returned.automation = None
        /\ returned.other_removed = None
        /\ (\A i \in DOMAIN records : Get(records[i].rec, "colrev_origin") = None)
              => (returned.databases = None /\ returned.duplicates = None)

\* C17: every bucket-derived field of the PrismaStatus returned is a
\* non-negative integer, and screened is at least records_excluded.
C17_FieldsNonNegative ==
    Done =>
        /\ \A f \in {"screened", "records_excluded", "reports_sought", "not_retrieved",
                     "assessed", "included", "new_reports"} : returned[f] \in Nat
        /\ returned.screened >= returned.records_excluded

C17_Witness ==
    /\ Done
    /\ returned.records_excluded = 2
    /\ returned.screened = 2
    /\ returned.reports_sought = 0

\* The value of a status field is not empty: it is there and is neither the
\* empty string nor zero.
NonEmptyValue(v) == v \notin {None, Str(""), Num(0)}

\* C18: get_status returns the trimmed value of the first of colrev_status,
\* status, screening_status whose value is not empty, whatever the later
\* fields hold, and the empty string when none of the three has one.
C18_FirstNonEmptyField ==
    Done =>
        LET keys == <<"colrev_status", "status", "screening_status">> IN
        /\ \A i \in 1..3 :
              (NonEmptyValue(arg[keys[i]]) /\ \A j \in 1..(i - 1) : ~NonEmptyValue(arg[keys[j]]))
                 => ret = Str(Strip(PyStr(arg[keys[i]])))
        /\ (\A i \in 1..3 : ~NonEmptyValue(arg[keys[i]])) => ret = Str("")

C18_Witness ==
    /\ Done
    /\ arg.colrev_status = Str("")
    /\ arg.status = Str(" rev_included ")
    /\ arg.screening_status = Str("pdf_prepared")
    /\ ret = Str("rev_included")

\* C19 as claimed: parse_screening_criteria of either module folds the case
\* of an entry's value and strips quotes and braces around it before the
\* lookup: an entry whose value is a recognised token in upper case, quoted
\* or braced gives the flag of the bare lower-case token.
C19_ValueFoldedAndStripped ==
    Done =>
        ret.val = [k \in {entries[1].key} |->
                      IF entries[1].token \in {"out", "exclude", "excluded", "0",
                                               "false", "no"}
                      THEN 1 ELSE 0]

\* C20: when the body of the loop of records_to_status is run by parallel
\* workers on any partition of the collection, in any interleaving, and the
\* workers' counters and tallies are summed key by key, the sums and the
\* summary derived from them are those of the sequential pass.
C20_ParallelEqualsSequential ==
    Done =>
        LET sequential == run_loop(records, 1, ZeroBuckets, EmptyDict) IN
        /\ buckets = sequential.buckets
        /\ fulltext_reasons = sequential.fulltext_reasons
        /\ returned = records_to_status(records)

C20_Witness ==
    /\ Done
    /\ Len(records) = 3
    /\ \A w \in DOMAIN workers : workers[w].taken # {}
    /\ \A w \in DOMAIN workers : "a" \in DOMAIN workers[w].fulltext_reasons
    /\ fulltext_reasons["a"] = 2

\* The eight counters, summed.
BucketSum == SumOver(buckets, DOMAIN buckets)

\* C21: in the pass of records_to_status the counters are the eight of the
\* code, each record processed adds 1 to exactly one of them and leaves the
\* other seven as they were, so the counters sum to the number of records
\* processed so far and, when the summary is returned, to the number of
\* records of the collection.
C21_OneCounterPerRecord ==
    /\ [][pos' = pos + 1 =>
             \E b \in BUCKETS :
                 /\ buckets'[b] = buckets[b] + 1
                 /\ \A c \in BUCKETS \ {b} : buckets'[c] = buckets[c]]_vars
    /\ [](/\ DOMAIN buckets = BUCKETS
          /\ BucketSum = pos - 1
          /\ Done => BucketSum = Len(records))

C21_Witness ==
    /\ Done
    /\ Len(records) = 4
    /\ BucketSum = 4
    /\ buckets["other"] = 1
    /\ buckets["duplicate"] = 1
    /\ buckets["fulltext_excluded"] = 2

\* C22: the PrismaStatus returned respects the order of the flow: the
\* included reports are among the assessed ones, the assessed and the not
\* retrieved ones among the reports sought, the reports sought among the
\* records screened, and new_reports is the number included.
C22_FlowOrdering ==
    Done =>
        /\ returned.included <= returned.assessed
        /\ returned.assessed + returned.not_retrieved <= returned.reports_sought
        /\ returned.reports_sought <= returned.screened
        /\ returned.included = returned.new_reports

C22_Witness ==
    /\ Done
    /\ returned.included = 1
    /\ returned.assessed = 2
    /\ returned.not_retrieved = 1
    /\ returned.reports_sought = 3
    /\ returned.screened = 4

\* The integer totals of the stages of the flow.
StageTotals ==
    {"screened", "records_excluded", "reports_sought", "not_retrieved", "assessed",
     "included", "new_reports"}

\* C23: a record classified fulltext_excluded or duplicate adds to none of
\* the integer stage totals: the summary of the collection without it has the
\* same screened, records_excluded, reports_sought, not_retrieved, assessed,
\* included and new_reports; a fulltext_excluded record changes no field of
\* the summary but reports_excluded and the origin-derived databases and
\* duplicates.
C23_ExcludedAndDuplicateOutsideTotals ==
    Done =>
        \A i \in DOMAIN records :
            LET b == BucketOf[records[i].rec]
                without == records_to_status(WithoutRecord(i))
            IN  b \in {"fulltext_excluded", "duplicate"} =>
                    /\ \A f \in StageTotals : without[f] = returned[f]
                    /\ b = "fulltext_excluded" =>
                          \A f \in DOMAIN returned
                                    \ {"reports_excluded", "databases", "duplicates"} :
                              without[f] = returned[f]

C23_Witness ==
    /\ Done
    /\ Len(records) = 3
    /\ BucketOf[records[1].rec] = "duplicate"
    /\ BucketOf[records[2].rec] = "fulltext_excluded"
    /\ BucketOf[records[3].rec] = "pdf_retrieved"
    /\ returned.assessed = 1
    /\ returned.reports_excluded = Dict([k \in {"a", "b"} |-> 1])
    /\ returned.databases = Num(2)
    /\ records_to_status(WithoutRecord(2)).reports_excluded = None
    /\ records_to_status(WithoutRecord(2)).databases = None

====
